---- MODULE Spec2Model ----
(***************************************************************************)
(* A model of smart_pointers.hpp: the control-block counters               *)
(* (SharedCount, SharedWeakCount), the two control-block variants          *)
(* (SharedPtrPointer, SharedPtrEmplacer), the owning handle SharedPtr, the *)
(* observing handle WeakPtr and the factory AllocateShared / MakeShared.   *)
(*                                                                         *)
(* A pointer is modelled as a number: 0 is nullptr, b > 0 is the address   *)
(* of control block b (for control_ptr_) or of the managed object that     *)
(* belongs to block b (for element_ptr_).  Every block is created at most  *)
(* once.  Handles live in slots: a slot is either not constructed          *)
(* (live = FALSE) or holds a handle object with its two pointers.          *)
(*                                                                         *)
(* A control block that was deallocated keeps its last contents until it   *)
(* is accessed again through a dangling control_ptr_; such an access is    *)
(* undefined behaviour, modelled by letting the two counters hold any      *)
(* value at the moment of the access (the memory may have been reused).    *)
(* ub counts these accesses and MaxUB caps them.                           *)
(***************************************************************************)
EXTENDS Naturals, FiniteSets

\* Bounds of the model.
NBlocks == 1      \* control blocks / managed objects that can be created
NS == 2           \* slots for SharedPtr objects
NW == 2           \* slots for WeakPtr objects
MaxCalls == 2     \* cap on the recorded number of calls of one cleanup hook
MaxUB == 1        \* cap on the accesses made to a deallocated control block

Blocks == 1..NBlocks
SSlots == 1..NS
WSlots == 1..NW

VARIABLES
    sp,     \* sp[i]: SharedPtr object in slot i (live, element_ptr_, control_ptr_)
    wp,     \* wp[k]: WeakPtr object in slot k (live, element_ptr_, control_ptr_)
    cb,     \* cb[b]: control block b, its counters and what happened to it
    last,   \* the operation that ran last, with what it observed
    ub      \* the number of accesses made to a deallocated control block

vars == <<sp, wp, cb, last, ub>>

\* A handle object that was not constructed, or was destroyed.
NoHandle == [live |-> FALSE, element_ptr_ |-> 0, control_ptr_ |-> 0]

\* SharedPtr() / WeakPtr(): both pointers null.
EmptyHandle == [live |-> TRUE, element_ptr_ |-> 0, control_ptr_ |-> 0]

Handle(e, c) == [live |-> TRUE, element_ptr_ |-> e, control_ptr_ |-> c]

\* A control block that does not exist yet.
\*   state: "none" not created, "live" constructed, "freed" deallocated,
\*          "failed" the constructing call threw and nothing is allocated,
\*          "leaked" the constructing call threw and the raw block is still
\*          allocated.
\*   kind:  the class of the block, "pointer" for SharedPtrPointer (made by
\*          the three raw-pointer constructors) and "emplacer" for
\*          SharedPtrEmplacer (made by AllocateShared / MakeShared).
\*   threw: the constructing call that threw, "no" when none did.
\*   deleter_calls: how often the destruction strategy (or the in-place
\*          destroy of the emplaced object) ran on the managed object.
\*   zero_shared_calls, zero_shared_and_weak_calls: how often each hook ran.
\*   alloc_alive: an allocation-strategy value stored in the block exists.
\*   value_: what the block manages, SharedPtrPointer::value_ (the raw
\*          pointer it was given, 0 when that was null) or the address of
\*          the object emplaced in SharedPtrEmplacer::storage_.
\*   allocate_calls: how often the constructing call obtained storage from
\*          the allocation strategy (or from new).
NoBlock ==
    [state |-> "none", kind |-> "none", threw |-> "no",
     shared_owners_ |-> 0, shared_weak_owners_ |-> 0,
     deleter_calls |-> 0, zero_shared_calls |-> 0,
     zero_shared_and_weak_calls |-> 0, alloc_alive |-> FALSE,
     value_ |-> 0, allocate_calls |-> 0]

\* A control block whose counters start at one, as SharedWeakCount(1) would.
NewBlockCountOne(k) ==
    [NoBlock EXCEPT !.state = "live", !.kind = k, !.alloc_alive = TRUE,
                    !.allocate_calls = 1,
                    !.shared_owners_ = 1, !.shared_weak_owners_ = 1]

\* SharedWeakCount(count = 0) inside a freshly constructed control block,
\* which sits in the one piece of storage the constructing call obtained.
NewBlock(k) ==
    [NoBlock EXCEPT !.state = "live", !.kind = k, !.alloc_alive = TRUE,
                    !.allocate_calls = 1]

\* The block b of kind k as its constructor leaves it, managing v.
BlockBuilt(c, b, k, v) == [c EXCEPT ![b] = [NewBlock(k) EXCEPT !.value_ = v]]

\* The record of the operation that ran last: its name, the slot it
\* constructed or acted on (dst), the slot of its argument (src), the control
\* block it reached (blk) and that block's strong count before (pre).  Only
\* the operations named in Observed are recorded; the others leave "other".
\* A move assignment between two handles of one block and the destruction of
\* an observing handle whose object is already destroyed go by names of their
\* own.
NoOp == [op |-> "init", dst |-> 0, src |-> 0, blk |-> 0, pre |-> 0]

Observed ==
    {"lock", "SharedPtr=(move), same block", "~WeakPtr, expired"}

Op(name, d, s, b, p) ==
    IF name \in Observed
    THEN [op |-> name, dst |-> d, src |-> s, blk |-> b, pre |-> p]
    ELSE [NoOp EXCEPT !.op = "other"]

----------------------------------------------------------------------------
\* SharedCount / SharedWeakCount, as functions on the map of control blocks.

\* SharedCount::use_count
UseCountOf(c, b) == c[b].shared_owners_

\* SharedCount::add_shared
AddShared(c, b) == [c EXCEPT ![b].shared_owners_ = @ + 1]

\* SharedWeakCount::add_weak
AddWeak(c, b) == [c EXCEPT ![b].shared_weak_owners_ = @ + 1]

\* SharedWeakCount::decrement_shared
DecrementShared(c, b) ==
    IF c[b].shared_owners_ > 0 THEN [c EXCEPT ![b].shared_owners_ = @ - 1] ELSE c

\* SharedWeakCount::decrement_weak
DecrementWeak(c, b) ==
    IF c[b].shared_weak_owners_ > 0
    THEN [c EXCEPT ![b].shared_weak_owners_ = @ - 1] ELSE c

\* SharedPtrPointer::zero_shared / SharedPtrEmplacer::zero_shared: run the
\* destruction strategy (or destroy the emplaced object in place).
ZeroShared(c, b) ==
    [c EXCEPT ![b].zero_shared_calls = @ + 1, ![b].deleter_calls = @ + 1]

\* SharedPtrPointer::zero_shared_and_weak /
\* SharedPtrEmplacer::zero_shared_and_weak: destroy the stored allocation
\* strategy and deallocate the block.
ZeroSharedAndWeak(c, b) ==
    [c EXCEPT ![b].zero_shared_and_weak_calls = @ + 1,
              ![b].alloc_alive = FALSE,
              ![b].state = "freed"]

\* SharedCount::release_shared
ReleaseShared(c, b) ==
    IF c[b].shared_owners_ = 0 THEN ZeroShared(c, b) ELSE c

\* SharedWeakCount::release_weak
ReleaseWeak(c, b) ==
    IF c[b].shared_weak_owners_ = 0 THEN ZeroSharedAndWeak(c, b) ELSE c

----------------------------------------------------------------------------
\* Access to a deallocated block: the counters hold any value.

StrongSeen(c, b) ==
    IF b = 0 THEN {0}
    ELSE IF c[b].state = "freed" THEN 0..NS ELSE {c[b].shared_owners_}

WeakSeen(c, b) ==
    IF b = 0 THEN {0}
    ELSE IF c[b].state = "freed" THEN 0..NW ELSE {c[b].shared_weak_owners_}

\* The blocks as an access through control_ptr_ = b finds them.
Seen(c, b, s, w) ==
    IF b = 0 THEN c
    ELSE [c EXCEPT ![b].shared_owners_ = s, ![b].shared_weak_owners_ = w]

\* The contents of a deallocated block are not part of the program's state:
\* whatever an access wrote there is read back as any value by the next one.
Forget(c) ==
    [b \in Blocks |->
        IF c[b].state = "freed"
        THEN [c[b] EXCEPT !.shared_owners_ = 0, !.shared_weak_owners_ = 0]
        ELSE c[b]]

\* The strong count of block b as an operation finds it (0 when there is no
\* block, or when the block is deallocated and the value means nothing).
PreOf(b) ==
    IF b = 0 THEN 0
    ELSE IF cb[b].state = "freed" THEN 0 ELSE cb[b].shared_owners_

\* 1 when an access through control_ptr_ = b reaches a deallocated block.
Dangling(b) == IF b # 0 /\ cb[b].state = "freed" THEN 1 ELSE 0

\* The recorded hook calls stay within the cap.
WithinCap(c) ==
    \A b \in Blocks :
        /\ c[b].zero_shared_calls <= MaxCalls
        /\ c[b].zero_shared_and_weak_calls <= MaxCalls
        /\ c[b].deleter_calls <= MaxCalls

----------------------------------------------------------------------------
\* Destructors, as functions from the control blocks before to after.

\* A SharedPtr destructor without the release_weak check after the strong
\* count reached 0.
SharedPtrDtorEffectNoReleaseWeak(c, ctrl) ==
    IF ctrl # 0
    THEN ReleaseShared(DecrementShared(c, ctrl), ctrl)
    ELSE c

\* SharedPtr::~SharedPtr on a handle whose control_ptr_ is ctrl.
SharedPtrDtorEffect(c, ctrl) ==
    IF ctrl # 0
    THEN LET c1 == DecrementShared(c, ctrl)
             c2 == ReleaseShared(c1, ctrl)
         IN  IF UseCountOf(c2, ctrl) = 0 THEN ReleaseWeak(c2, ctrl) ELSE c2
    ELSE c

\* A WeakPtr destructor that also runs release_shared, as ~SharedPtr does.
WeakPtrDtorEffectReleasesShared(c, ctrl) ==
    IF ctrl # 0
    THEN LET c1 == DecrementWeak(c, ctrl)
             c2 == ReleaseShared(c1, ctrl)
         IN  IF UseCountOf(c2, ctrl) = 0 THEN ReleaseWeak(c2, ctrl) ELSE c2
    ELSE c

\* WeakPtr::~WeakPtr on a handle whose control_ptr_ is ctrl.
WeakPtrDtorEffect(c, ctrl) ==
    IF ctrl # 0
    THEN LET c1 == DecrementWeak(c, ctrl)
         IN  IF UseCountOf(c1, ctrl) = 0 THEN ReleaseWeak(c1, ctrl) ELSE c1
    ELSE c

\* A copy constructor that forgets add_shared.
CopyEffectNoAdd(c, ctrl) == c

\* The copy constructors' effect on the block of the copied handle.
CopyEffect(c, ctrl) == IF ctrl # 0 THEN AddShared(c, ctrl) ELSE c

\* A WeakPtr copy constructor that forgets add_weak.
WeakCopyEffectNoAdd(c, ctrl) == c

\* The effect of WeakPtr(const WeakPtr&) and WeakPtr(const SharedPtr&) on the
\* block of the handle they copy.
WeakCopyEffect(c, ctrl) == IF ctrl # 0 THEN AddWeak(c, ctrl) ELSE c

----------------------------------------------------------------------------
\* Observers.

\* SharedPtr::use_count
use_count(i) ==
    IF sp[i].control_ptr_ # 0 THEN cb[sp[i].control_ptr_].shared_owners_ ELSE 0

\* SharedPtr::get
get(i) == sp[i].element_ptr_

\* WeakPtr::expired
expired(k) ==
    wp[k].control_ptr_ = 0 \/ cb[wp[k].control_ptr_].shared_owners_ = 0

\* The live SharedPtr / WeakPtr objects bound to block b.
Owners(b) == {i \in SSlots : sp[i].live /\ sp[i].control_ptr_ = b}

Observers(b) == {k \in WSlots : wp[k].live /\ wp[k].control_ptr_ = b}

----------------------------------------------------------------------------
Init ==
    /\ sp = [i \in SSlots |-> NoHandle]
    /\ wp = [k \in WSlots |-> NoHandle]
    /\ cb = [b \in Blocks |-> NoBlock]
    /\ last = NoOp
    /\ ub = 0

----------------------------------------------------------------------------
\* Construction of an owning handle with a new control block.

\* The constructing call threw: no block is left allocated.  d is the number
\* of times the destruction strategy ran on the caller's object.
FailedBlock(call, d) ==
    [NoBlock EXCEPT !.state = "failed", !.kind = "pointer", !.threw = call,
                    !.deleter_calls = d]

\* A SharedPtr(Y* ptr) that makes the empty handle of a null pointer and
\* allocates no control block for it.
SharedPtrFromRawNullIsEmpty(i, b, ptr, allocFails) ==
    /\ ~sp[i].live
    /\ cb[b].state = "none"
    /\ IF ptr = 0
       THEN /\ cb' = cb
            /\ sp' = [sp EXCEPT ![i] = EmptyHandle]
       ELSE IF allocFails
       THEN /\ cb' = [cb EXCEPT ![b] = FailedBlock("SharedPtr(ptr)", 0)]
            /\ sp' = sp
       ELSE /\ cb' = AddShared(BlockBuilt(cb, b, "pointer", ptr), b)
            /\ sp' = [sp EXCEPT ![i] = Handle(ptr, b)]
    /\ last' = Op("SharedPtr(ptr)", i, 0, b, 0)
    /\ wp' = wp
    /\ ub' = ub

\* SharedPtr(Y* ptr): new control_block(...), then add_shared.  There is no
\* handler around the allocation.
SharedPtrFromRaw(i, b, ptr, allocFails) ==
    /\ ~sp[i].live
    /\ cb[b].state = "none"
    /\ IF allocFails
       THEN /\ cb' = [cb EXCEPT ![b] = FailedBlock("SharedPtr(ptr)", 0)]
            /\ sp' = sp
       ELSE /\ cb' = AddShared(BlockBuilt(cb, b, "pointer", ptr), b)
            /\ sp' = [sp EXCEPT ![i] = Handle(ptr, b)]
    /\ last' = Op("SharedPtr(ptr)", i, 0, b, 0)
    /\ wp' = wp
    /\ ub' = ub

\* A handler that rethrows without running del(ptr).
FromRawDeleterFailureNoDel == FailedBlock("SharedPtr(ptr,del)", 0)

\* What SharedPtr(Y* ptr, Deleter del) leaves of block b when the allocation
\* inside the try block throws: the handler runs del(ptr) and rethrows.
FromRawDeleterFailure == FailedBlock("SharedPtr(ptr,del)", 1)

\* SharedPtr(Y* ptr, Deleter del)
SharedPtrFromRawDeleter(i, b, ptr, allocFails) ==
    /\ ~sp[i].live
    /\ cb[b].state = "none"
    /\ IF allocFails
       THEN /\ cb' = [cb EXCEPT ![b] = FromRawDeleterFailure]
            /\ sp' = sp
       ELSE /\ cb' = AddShared(BlockBuilt(cb, b, "pointer", ptr), b)
            /\ sp' = [sp EXCEPT ![i] = Handle(ptr, b)]
    /\ last' = Op("SharedPtr(ptr,del)", i, 0, b, 0)
    /\ wp' = wp
    /\ ub' = ub

\* What SharedPtr(Y* ptr, Deleter del, Alloc alloc) leaves of block b when
\* rebinded_traits::allocate throws: the call is made before the try block
\* is entered, so no handler runs.
FromRawDeleterAllocAllocateFailure == FailedBlock("SharedPtr(ptr,del,alloc):allocate", 0)

\* ... and when constructing the block in the allocated storage throws: the
\* handler deallocates the storage, runs del(ptr) and rethrows.
FromRawDeleterAllocConstructFailure ==
    [FailedBlock("SharedPtr(ptr,del,alloc):construct", 1) EXCEPT !.allocate_calls = 1]

\* SharedPtr(Y* ptr, Deleter del, Alloc alloc)
SharedPtrFromRawDeleterAlloc(i, b, ptr, allocFails, constructFails) ==
    /\ ~sp[i].live
    /\ cb[b].state = "none"
    /\ IF allocFails
       THEN /\ cb' = [cb EXCEPT ![b] = FromRawDeleterAllocAllocateFailure]
            /\ sp' = sp
       ELSE IF constructFails
       THEN /\ cb' = [cb EXCEPT ![b] = FromRawDeleterAllocConstructFailure]
            /\ sp' = sp
       ELSE /\ cb' = AddShared(BlockBuilt(cb, b, "pointer", ptr), b)
            /\ sp' = [sp EXCEPT ![i] = Handle(ptr, b)]
    /\ last' = Op("SharedPtr(ptr,del,alloc)", i, 0, b, 0)
    /\ wp' = wp
    /\ ub' = ub

\* SharedPtrEmplacer::SharedPtrEmplacer when constructing the managed object
\* throws: storage_ was constructed, so its destructor runs (~Storage
\* destroys the stored allocation strategy); the emplacer itself does not
\* own the raw block.
EmplacerCtorFailure ==
    [NoBlock EXCEPT !.kind = "emplacer", !.threw = "AllocateShared:construct",
                    !.alloc_alive = FALSE]

\* What AllocateShared leaves of block b when the emplacer's constructor
\* throws: the block came from cntrl_traits::allocate and was filled by a
\* placement new; nothing in AllocateShared deallocates it.
AllocateSharedCtorFailure ==
    [EmplacerCtorFailure EXCEPT !.state = "leaked", !.allocate_calls = 1]

\* What AllocateShared leaves of block b when cntrl_traits::allocate throws:
\* nothing was allocated or constructed.
AllocateSharedAllocateFailure ==
    [NoBlock EXCEPT !.state = "failed", !.kind = "emplacer",
                    !.threw = "AllocateShared:allocate"]

\* AllocateShared / MakeShared (MakeShared passes std::allocator<T>).
AllocateShared(i, b, allocFails, ctorFails) ==
    /\ ~sp[i].live
    /\ cb[b].state = "none"
    /\ IF allocFails
       THEN /\ cb' = [cb EXCEPT ![b] = AllocateSharedAllocateFailure]
            /\ sp' = sp
       ELSE IF ctorFails
       THEN /\ cb' = [cb EXCEPT ![b] = AllocateSharedCtorFailure]
            /\ sp' = sp
       ELSE \* SharedPtr::create_with_control_block(get_elem(), block)
            /\ cb' = AddShared(BlockBuilt(cb, b, "emplacer", b), b)
            /\ sp' = [sp EXCEPT ![i] = Handle(b, b)]
    /\ last' = Op("AllocateShared", i, 0, b, 0)
    /\ wp' = wp
    /\ ub' = ub

----------------------------------------------------------------------------
\* The other operations on owning handles.

\* SharedPtr()
SharedPtrDefault(i) ==
    /\ ~sp[i].live
    /\ sp' = [sp EXCEPT ![i] = EmptyHandle]
    /\ last' = Op("SharedPtr()", i, 0, 0, 0)
    /\ UNCHANGED <<wp, cb>>
    /\ ub' = ub

\* SharedPtr(const SharedPtr& other): slot i is constructed from slot j.
SharedPtrCopy(i, j) ==
    /\ ~sp[i].live
    /\ sp[j].live
    /\ LET ctrl == sp[j].control_ptr_ IN
       \E s \in StrongSeen(cb, ctrl), w \in WeakSeen(cb, ctrl) :
          /\ cb' = Forget(CopyEffect(Seen(cb, ctrl, s, w), ctrl))
          /\ last' = Op("SharedPtr(copy)", i, j, ctrl, PreOf(ctrl))
    /\ sp' = [sp EXCEPT ![i] = sp[j]]
    /\ wp' = wp
    /\ ub' = ub + (Dangling(sp[j].control_ptr_))
    /\ ub' <= MaxUB

\* A move constructor that forgets to null the pointers of its source.
SharedPtrMoveKeepsSource(i, j) ==
    /\ ~sp[i].live
    /\ sp[j].live
    /\ sp' = [sp EXCEPT ![i] = sp[j]]
    /\ last' = Op("SharedPtr(move)", i, j, sp[j].control_ptr_, 0)
    /\ UNCHANGED <<wp, cb>>
    /\ ub' = ub

\* SharedPtr(SharedPtr&& other): slot i is constructed from slot j.
SharedPtrMove(i, j) ==
    /\ ~sp[i].live
    /\ sp[j].live
    /\ sp' = [sp EXCEPT ![i] = sp[j], ![j] = EmptyHandle]
    /\ last' = Op("SharedPtr(move)", i, j, sp[j].control_ptr_, 0)
    /\ UNCHANGED <<wp, cb>>
    /\ ub' = ub

\* SharedPtr::~SharedPtr
SharedPtrDtor(i) ==
    /\ sp[i].live
    /\ LET ctrl == sp[i].control_ptr_ IN
       \E s \in StrongSeen(cb, ctrl), w \in WeakSeen(cb, ctrl) :
          /\ cb' = Forget(SharedPtrDtorEffect(Seen(cb, ctrl, s, w), ctrl))
          /\ last' = Op("~SharedPtr", i, 0, ctrl, PreOf(ctrl))
    /\ WithinCap(cb')
    /\ sp' = [sp EXCEPT ![i] = NoHandle]
    /\ wp' = wp
    /\ ub' = ub + (Dangling(sp[i].control_ptr_))
    /\ ub' <= MaxUB

\* SharedPtr::operator=(const SharedPtr& other), *this in slot i, other in
\* slot j: SharedPtr(other).swap(*this), then the temporary is destroyed.
SharedPtrCopyAssign(i, j) ==
    /\ sp[i].live
    /\ sp[j].live
    /\ LET new == sp[j].control_ptr_
           old == sp[i].control_ptr_
       IN \E s1 \in StrongSeen(cb, new), w1 \in WeakSeen(cb, new) :
            LET c1 == CopyEffect(Seen(cb, new, s1, w1), new) IN
            \E s2 \in StrongSeen(c1, old), w2 \in WeakSeen(c1, old) :
               /\ cb' = Forget(SharedPtrDtorEffect(Seen(c1, old, s2, w2), old))
               /\ last' = Op("SharedPtr=(copy)", i, j, old, PreOf(old))
    /\ WithinCap(cb')
    /\ sp' = [sp EXCEPT ![i] = sp[j]]
    /\ wp' = wp
    /\ ub' = ub + (Dangling(sp[j].control_ptr_) + Dangling(sp[i].control_ptr_))
    /\ ub' <= MaxUB

\* The control block that the owning handles in slots i and j, two different
\* handles, are both bound to; 0 when there is none.
SameBlock(i, j) ==
    IF i # j /\ sp[i].control_ptr_ = sp[j].control_ptr_
    THEN sp[i].control_ptr_
    ELSE 0

\* SharedPtr::operator=(SharedPtr&& other):
\* SharedPtr(std::move(other)).swap(*this), then the temporary is destroyed.
SharedPtrMoveAssign(i, j) ==
    /\ sp[i].live
    /\ sp[j].live
    /\ LET temp == sp[j]
           sp1 == [sp EXCEPT ![j] = EmptyHandle]
           old == sp1[i].control_ptr_
       IN /\ \E s \in StrongSeen(cb, old), w \in WeakSeen(cb, old) :
               /\ cb' = Forget(SharedPtrDtorEffect(Seen(cb, old, s, w), old))
               /\ last' = Op(IF SameBlock(i, j) # 0
                             THEN "SharedPtr=(move), same block"
                             ELSE "SharedPtr=(move)",
                             i, j, old, PreOf(old))
          /\ sp' = [sp1 EXCEPT ![i] = temp]
    /\ WithinCap(cb')
    /\ wp' = wp
    /\ ub' = ub + (IF i = j THEN 0 ELSE Dangling(sp[i].control_ptr_))
    /\ ub' <= MaxUB

\* SharedPtr::reset: SharedPtr().swap(*this), then the temporary is destroyed.
SharedPtrReset(i) ==
    /\ sp[i].live
    /\ LET old == sp[i].control_ptr_ IN
       \E s \in StrongSeen(cb, old), w \in WeakSeen(cb, old) :
          /\ cb' = Forget(SharedPtrDtorEffect(Seen(cb, old, s, w), old))
          /\ last' = Op("reset", i, 0, old, PreOf(old))
    /\ WithinCap(cb')
    /\ sp' = [sp EXCEPT ![i] = EmptyHandle]
    /\ wp' = wp
    /\ ub' = ub + (Dangling(sp[i].control_ptr_))
    /\ ub' <= MaxUB

----------------------------------------------------------------------------
\* Operations on observing handles.

\* WeakPtr()
WeakPtrDefault(k) ==
    /\ ~wp[k].live
    /\ wp' = [wp EXCEPT ![k] = EmptyHandle]
    /\ last' = Op("WeakPtr()", k, 0, 0, 0)
    /\ UNCHANGED <<sp, cb>>
    /\ ub' = ub

\* WeakPtr(const WeakPtr& other): slot k is constructed from slot l.
WeakPtrCopy(k, l) ==
    /\ ~wp[k].live
    /\ wp[l].live
    /\ LET ctrl == wp[l].control_ptr_ IN
       \E s \in StrongSeen(cb, ctrl), w \in WeakSeen(cb, ctrl) :
          /\ cb' = Forget(WeakCopyEffect(Seen(cb, ctrl, s, w), ctrl))
          /\ last' = Op("WeakPtr(copy)", k, l, ctrl, PreOf(ctrl))
    /\ wp' = [wp EXCEPT ![k] = wp[l]]
    /\ sp' = sp
    /\ ub' = ub + (Dangling(wp[l].control_ptr_))
    /\ ub' <= MaxUB

\* WeakPtr(WeakPtr&& other): slot k is constructed from slot l.
WeakPtrMove(k, l) ==
    /\ ~wp[k].live
    /\ wp[l].live
    /\ wp' = [wp EXCEPT ![k] = wp[l], ![l] = EmptyHandle]
    /\ last' = Op("WeakPtr(move)", k, l, wp[l].control_ptr_, 0)
    /\ UNCHANGED <<sp, cb>>
    /\ ub' = ub

\* WeakPtr(const SharedPtr<Y>& other): slot k is constructed from the owning
\* handle in slot i.
WeakPtrFromShared(k, i) ==
    /\ ~wp[k].live
    /\ sp[i].live
    /\ LET ctrl == sp[i].control_ptr_ IN
       \E s \in StrongSeen(cb, ctrl), w \in WeakSeen(cb, ctrl) :
          /\ cb' = Forget(WeakCopyEffect(Seen(cb, ctrl, s, w), ctrl))
          /\ last' = Op("WeakPtr(shared)", k, i, ctrl, PreOf(ctrl))
    /\ wp' = [wp EXCEPT ![k] = sp[i]]
    /\ sp' = sp
    /\ ub' = ub + (Dangling(sp[i].control_ptr_))
    /\ ub' <= MaxUB

\* WeakPtr::~WeakPtr
WeakPtrDtor(k) ==
    /\ wp[k].live
    /\ LET ctrl == wp[k].control_ptr_ IN
       \E s \in StrongSeen(cb, ctrl), w \in WeakSeen(cb, ctrl) :
          /\ cb' = Forget(WeakPtrDtorEffect(Seen(cb, ctrl, s, w), ctrl))
          /\ last' = Op(IF ctrl # 0 /\ PreOf(ctrl) = 0
                        THEN "~WeakPtr, expired" ELSE "~WeakPtr",
                        k, 0, ctrl, PreOf(ctrl))
    /\ WithinCap(cb')
    /\ wp' = [wp EXCEPT ![k] = NoHandle]
    /\ sp' = sp
    /\ ub' = ub + (Dangling(wp[k].control_ptr_))
    /\ ub' <= MaxUB

\* WeakPtr::operator=(const WeakPtr& other): WeakPtr(other).swap(*this).
WeakPtrCopyAssign(k, l) ==
    /\ wp[k].live
    /\ wp[l].live
    /\ LET new == wp[l].control_ptr_
           old == wp[k].control_ptr_
       IN \E s1 \in StrongSeen(cb, new), w1 \in WeakSeen(cb, new) :
            LET c1 == WeakCopyEffect(Seen(cb, new, s1, w1), new) IN
            \E s2 \in StrongSeen(c1, old), w2 \in WeakSeen(c1, old) :
               /\ cb' = Forget(WeakPtrDtorEffect(Seen(c1, old, s2, w2), old))
               /\ last' = Op("WeakPtr=(copy)", k, l, old, PreOf(old))
    /\ WithinCap(cb')
    /\ wp' = [wp EXCEPT ![k] = wp[l]]
    /\ sp' = sp
    /\ ub' = ub + (Dangling(wp[l].control_ptr_) + Dangling(wp[k].control_ptr_))
    /\ ub' <= MaxUB

\* WeakPtr::operator=(WeakPtr&& other): WeakPtr(std::move(other)).swap(*this).
WeakPtrMoveAssign(k, l) ==
    /\ wp[k].live
    /\ wp[l].live
    /\ LET temp == wp[l]
           wp1 == [wp EXCEPT ![l] = EmptyHandle]
           old == wp1[k].control_ptr_
       IN /\ \E s \in StrongSeen(cb, old), w \in WeakSeen(cb, old) :
               /\ cb' = Forget(WeakPtrDtorEffect(Seen(cb, old, s, w), old))
               /\ last' = Op("WeakPtr=(move)", k, l, old, PreOf(old))
          /\ wp' = [wp1 EXCEPT ![k] = temp]
    /\ WithinCap(cb')
    /\ sp' = sp
    /\ ub' = ub + (IF k = l THEN 0 ELSE Dangling(wp[k].control_ptr_))
    /\ ub' <= MaxUB

\* What WeakPtr::lock returns for the observing handle h: the control block
\* pointer is taken over when it is not null, and then the element pointer
\* too; no counter is read or written.
LockResult(h) ==
    IF h.control_ptr_ # 0
    THEN Handle(h.element_ptr_, h.control_ptr_)
    ELSE EmptyHandle

\* WeakPtr::lock on the handle in slot k; the result is constructed in the
\* owning slot i.
WeakPtrLock(i, k) ==
    /\ ~sp[i].live
    /\ wp[k].live
    /\ sp' = [sp EXCEPT ![i] = LockResult(wp[k])]
    /\ last' = Op("lock", i, k, wp[k].control_ptr_, PreOf(wp[k].control_ptr_))
    /\ UNCHANGED <<wp, cb>>
    /\ ub' = ub

----------------------------------------------------------------------------
Construct ==
    \E i \in SSlots, b \in Blocks, allocFails \in BOOLEAN :
        \/ \E ptr \in {0, b} :
              \/ SharedPtrFromRaw(i, b, ptr, allocFails)
              \/ SharedPtrFromRawDeleter(i, b, ptr, allocFails)
              \/ \E constructFails \in BOOLEAN :
                    SharedPtrFromRawDeleterAlloc(i, b, ptr, allocFails, constructFails)
        \/ \E ctorFails \in BOOLEAN : AllocateShared(i, b, allocFails, ctorFails)

OwningOps ==
    \E i \in SSlots :
        \/ SharedPtrDefault(i)
        \/ SharedPtrDtor(i)
        \/ SharedPtrReset(i)
        \/ \E j \in SSlots :
              \/ SharedPtrCopy(i, j)
              \/ SharedPtrMove(i, j)
              \/ SharedPtrCopyAssign(i, j)
              \/ SharedPtrMoveAssign(i, j)

ObservingOps ==
    \E k \in WSlots :
        \/ WeakPtrDefault(k)
        \/ WeakPtrDtor(k)
        \/ \E i \in SSlots : WeakPtrFromShared(k, i)
        \/ \E l \in WSlots :
              \/ WeakPtrCopy(k, l)
              \/ WeakPtrMove(k, l)
              \/ WeakPtrCopyAssign(k, l)
              \/ WeakPtrMoveAssign(k, l)

Lock == \E i \in SSlots, k \in WSlots : WeakPtrLock(i, k)

\* Every operation except WeakPtr::lock.
NextNoLock == Construct \/ OwningOps \/ ObservingOps

Next == Construct \/ OwningOps \/ ObservingOps \/ Lock

Spec == Init /\ [][Next]_vars

\* The programs that never call WeakPtr::lock.
SpecNoLock == Init /\ [][NextNoLock]_vars

TypeOK ==
    /\ ub \in 0..MaxUB
    /\ \A i \in SSlots : sp[i].element_ptr_ \in 0..NBlocks /\ sp[i].control_ptr_ \in 0..NBlocks
    /\ \A k \in WSlots : wp[k].element_ptr_ \in 0..NBlocks /\ wp[k].control_ptr_ \in 0..NBlocks
    /\ \A b \in Blocks : cb[b].shared_owners_ \in 0..(NS + 1) /\ cb[b].shared_weak_owners_ \in 0..(NW + 1)

----------------------------------------------------------------------------
\* Block b was constructed: handles were, or are, bound to it.
Constructed(b) == cb[b].state \in {"live", "freed"}

\* No handle of either kind is bound to block b.
AllGone(b) == Owners(b) = {} /\ Observers(b) = {}

\* C1: in programs that never call lock, use_count() read through any live
\* owning handle bound to a block equals the number of live owning handles
\* bound to that block (and is 0 through an empty handle).
C1_UseCountIsOwners ==
    \A i \in SSlots :
        sp[i].live =>
            use_count(i) =
                IF sp[i].control_ptr_ = 0 THEN 0
                ELSE Cardinality(Owners(sp[i].control_ptr_))

\* Two owning handles share one block, one of them made by copying.
C1_Witness ==
    \E b \in Blocks :
        /\ cb[b].state = "live"
        /\ Cardinality(Owners(b)) = 2
        /\ cb[b].shared_owners_ = 2

\* C2: the first cleanup hook fires at most once per control block, and has
\* fired exactly once when all handles of a constructed block are gone.
C2_DestroyedExactlyOnce ==
    \A b \in Blocks :
        /\ cb[b].zero_shared_calls <= 1
        /\ (Constructed(b) /\ AllGone(b)) => cb[b].zero_shared_calls = 1

\* C3: if the first cleanup hook has fired for a block, no live owning
\* handle references that block.
C3_NoOwnerOfDestroyedObject ==
    \A b \in Blocks : cb[b].zero_shared_calls > 0 => Owners(b) = {}

\* C4: the final cleanup hook fires at most once per block, exactly once
\* when all handles are gone, and a deallocated block is referenced by no
\* live owning or observing handle.
C4_DeallocatedExactlyOnce ==
    \A b \in Blocks :
        /\ cb[b].zero_shared_and_weak_calls <= 1
        /\ (Constructed(b) /\ AllGone(b)) => cb[b].zero_shared_and_weak_calls = 1
        /\ cb[b].state = "freed" => AllGone(b)

\* The last operation was lock() on an observing handle bound to a block
\* that is not deallocated.
LockedLiveBlock ==
    /\ last.op = "lock"
    /\ last.blk # 0
    /\ cb[last.blk].state = "live"

\* C5: lock() on an expired observing handle (control block not null, strong
\* count 0) returns an empty owning handle: get() is null and use_count()
\* is 0.
C5_LockExpiredIsEmpty ==
    (LockedLiveBlock /\ last.pre = 0) =>
        /\ sp[last.dst] = EmptyHandle
        /\ get(last.dst) = 0
        /\ use_count(last.dst) = 0

\* C6: lock() on a non-expired observing handle returns a non-empty owning
\* handle whose get() is the managed object's address, and use_count()
\* after the call is use_count() before the call plus one.
C6_LockAddsOneOwner ==
    (LockedLiveBlock /\ last.pre > 0) =>
        /\ sp[last.dst].live
        /\ sp[last.dst].control_ptr_ = last.blk
        /\ get(last.dst) = wp[last.src].element_ptr_
        /\ use_count(last.dst) = last.pre + 1

\* C7: once an observing handle reports expired() it reports it for as long
\* as it exists, whatever operation runs; and expired() is false while the
\* strong count of its block is positive.
C7_ExpiredStaysExpired ==
    [][\A k \in WSlots :
          /\ (wp[k].live /\ wp[k].control_ptr_ # 0 /\ expired(k) /\ wp'[k] = wp[k])
                => expired(k)'
          /\ (wp[k].live /\ wp[k].control_ptr_ # 0
                /\ cb[wp[k].control_ptr_].shared_owners_ > 0) => ~expired(k)
      ]_vars

\* C8: when the allocation of the control block through the given
\* allocation strategy fails in SharedPtr(ptr, del, alloc), the destruction
\* strategy has run exactly once on the raw object and no handle or control
\* block remains.
C8_AllocFailureRunsDeleter ==
    \A b \in Blocks :
        cb[b].threw = "SharedPtr(ptr,del,alloc):allocate" =>
            /\ cb[b].deleter_calls = 1
            /\ cb[b].state = "failed"
            /\ AllGone(b)

\* C9: when the allocation of the control block fails in
\* SharedPtr(ptr, del), the destruction strategy has run exactly once on the
\* raw object, no hook ever runs it again, and nothing is left allocated or
\* bound.
C9_DeleterRunsOnceOnFailure ==
    \A b \in Blocks :
        cb[b].threw = "SharedPtr(ptr,del)" =>
            /\ cb[b].deleter_calls = 1
            /\ cb[b].zero_shared_calls = 0
            /\ cb[b].state = "failed"
            /\ AllGone(b)

\* SharedPtr(ptr, del) threw, the destruction strategy ran, and the program
\* went on with other handles.
C9_Witness ==
    \E b \in Blocks :
        /\ cb[b].threw = "SharedPtr(ptr,del)"
        /\ cb[b].deleter_calls = 1
        /\ \E i \in SSlots : sp[i].live
        /\ \E k \in WSlots : wp[k].live

\* C10: when the managed object's constructor fails in AllocateShared /
\* MakeShared, the allocation-strategy value is destroyed and the raw block
\* is deallocated: no allocation remains outstanding.
C10_FactoryFailureReleasesBlock ==
    \A b \in Blocks :
        cb[b].threw = "AllocateShared:construct" =>
            /\ ~cb[b].alloc_alive
            /\ cb[b].state = "failed"

\* C11: a successful AllocateShared / MakeShared obtains storage from the
\* allocation strategy exactly once, for a block that holds the object
\* itself, and returns a non-empty owning handle bound to that block with
\* use_count() = 1 and weak count 0.
C11_FactoryOneAllocation ==
    [][\A i \in SSlots, b \in Blocks :
          AllocateShared(i, b, FALSE, FALSE) =>
              /\ sp'[i] = Handle(b, b)
              /\ use_count(i)' = 1
              /\ cb'[b].state = "live"
              /\ cb'[b].kind = "emplacer"
              /\ cb'[b].value_ = b
              /\ cb'[b].allocate_calls = 1
              /\ cb'[b].shared_owners_ = 1
              /\ cb'[b].shared_weak_owners_ = 0
      ]_vars

\* A handle that came out of the factory, still the only one of its block.
C11_Witness ==
    \E i \in SSlots, b \in Blocks :
        /\ sp[i] = Handle(b, b)
        /\ cb[b].state = "live"
        /\ cb[b].kind = "emplacer"
        /\ cb[b].allocate_calls = 1
        /\ use_count(i) = 1
        /\ Observers(b) = {}

\* The strong and weak counts of block b are the same before and after.
CountsUnchanged(b) ==
    b # 0 =>
        /\ cb'[b].shared_owners_ = cb[b].shared_owners_
        /\ cb'[b].shared_weak_owners_ = cb[b].shared_weak_owners_

\* Destroying an empty handle changes no counter and fires no hook.
EmptyDtorIsNoOp ==
    /\ \A i \in SSlots : (sp[i] = EmptyHandle /\ SharedPtrDtor(i)) => cb' = cb
    /\ \A k \in WSlots : (wp[k] = EmptyHandle /\ WeakPtrDtor(k)) => cb' = cb

\* C12 as stated: a move (construction or assignment to a different handle)
\* leaves the source with both pointers null and the strong and weak counts
\* of the transferred block unchanged, and destroying the moved-from source
\* changes nothing.
C12_MoveKeepsCounts ==
    [][/\ \A i \in SSlots, j \in SSlots :
            (/\ i # j
             /\ sp[j].live
             /\ wp' = wp
             /\ SharedPtrMove(i, j) \/ SharedPtrMoveAssign(i, j)) =>
                /\ sp'[j] = EmptyHandle
                /\ sp'[i] = sp[j]
                /\ CountsUnchanged(sp[j].control_ptr_)
       /\ \A k \in WSlots, l \in WSlots :
            (/\ k # l
             /\ wp[l].live
             /\ sp' = sp
             /\ WeakPtrMove(k, l) \/ WeakPtrMoveAssign(k, l)) =>
                /\ wp'[l] = EmptyHandle
                /\ wp'[k] = wp[l]
                /\ CountsUnchanged(wp[l].control_ptr_)
       /\ EmptyDtorIsNoOp
      ]_vars

\* The count c of a block after one reference to it was released.
Released(c) == IF c > 0 THEN c - 1 ELSE 0

\* C12 as amended: as above, except that a move assignment whose destination
\* was already bound to the transferred block releases the destination's own
\* reference: the strong count (owning handles) or the weak count (observing
\* handles) of that block goes down by one, the other count is unchanged.
C12_MoveKeepsCountsAmended ==
    [][/\ \A i \in SSlots, j \in SSlots :
            (/\ i # j
             /\ sp[j].live
             /\ wp' = wp
             /\ SharedPtrMove(i, j) \/ SharedPtrMoveAssign(i, j)) =>
                LET b == sp[j].control_ptr_ IN
                /\ sp'[j] = EmptyHandle
                /\ sp'[i] = sp[j]
                /\ IF b # 0 /\ sp[i].live /\ sp[i].control_ptr_ = b
                   THEN /\ cb'[b].shared_owners_ = Released(cb[b].shared_owners_)
                        /\ cb'[b].shared_weak_owners_ = cb[b].shared_weak_owners_
                   ELSE CountsUnchanged(b)
       /\ \A k \in WSlots, l \in WSlots :
            (/\ k # l
             /\ wp[l].live
             /\ sp' = sp
             /\ WeakPtrMove(k, l) \/ WeakPtrMoveAssign(k, l)) =>
                LET b == wp[l].control_ptr_ IN
                /\ wp'[l] = EmptyHandle
                /\ wp'[k] = wp[l]
                /\ IF b # 0 /\ wp[k].live /\ wp[k].control_ptr_ = b
                   THEN /\ cb'[b].shared_weak_owners_ = Released(cb[b].shared_weak_owners_)
                        /\ cb'[b].shared_owners_ = cb[b].shared_owners_
                   ELSE CountsUnchanged(b)
       /\ EmptyDtorIsNoOp
      ]_vars

\* An owning handle was move-assigned to another handle of the same block:
\* the source is empty and the block went from two owners to one.
C12_Witness ==
    /\ last.op = "SharedPtr=(move), same block"
    /\ last.dst # last.src
    /\ sp[last.src] = EmptyHandle
    /\ sp[last.dst].control_ptr_ = last.blk
    /\ last.blk # 0
    /\ last.pre = 2
    /\ cb[last.blk].shared_owners_ = 1

\* C13: copy-assigning or move-assigning a non-empty owning handle to itself
\* leaves its two pointers and the counters of every block as they were and
\* fires no cleanup hook (no hook counter and no block state changes).
C13_SelfAssignChangesNothing ==
    [][\A i \in SSlots :
          ((SharedPtrCopyAssign(i, i) \/ SharedPtrMoveAssign(i, i))
              /\ sp[i].control_ptr_ # 0) =>
                 /\ sp'[i] = sp[i]
                 /\ cb' = cb
      ]_vars

\* C14: reset() leaves the handle empty (get() = null, use_count() = 0); on
\* a non-empty handle the strong count of its block drops by one, the object
\* is destroyed exactly when that was the last owning handle, and the block
\* is then freed exactly when no observing handle exists; on an empty handle
\* reset() changes nothing.
C14_ResetIsDestroy ==
    [][\A i \in SSlots :
          SharedPtrReset(i) =>
             LET b == sp[i].control_ptr_ IN
             /\ sp'[i] = EmptyHandle
             /\ get(i)' = 0
             /\ use_count(i)' = 0
             /\ b = 0 => cb' = cb
             /\ b # 0 =>
                  /\ cb[b].state = "live"
                  /\ cb[b].shared_owners_ > 0
                  /\ IF Owners(b) = {i}
                     THEN /\ cb'[b].zero_shared_calls = cb[b].zero_shared_calls + 1
                          /\ cb'[b].deleter_calls = cb[b].deleter_calls + 1
                          /\ IF Observers(b) = {}
                             THEN cb'[b].state = "freed"
                             ELSE /\ cb'[b].state = "live"
                                  /\ cb'[b].shared_owners_ = 0
                     ELSE /\ cb'[b].shared_owners_ + 1 = cb[b].shared_owners_
                          /\ cb'[b].zero_shared_calls = cb[b].zero_shared_calls
                          /\ cb'[b].state = "live"
      ]_vars

\* C15: every live owning handle has either both pointers null, or both
\* non-null with a strong count that includes it: the strong count of a
\* block is at least the number of live owning handles bound to it.
C15_HandleInvariant ==
    \A i \in SSlots :
        sp[i].live =>
            IF sp[i].control_ptr_ = 0
            THEN sp[i].element_ptr_ = 0
            ELSE /\ sp[i].element_ptr_ # 0
                 /\ cb[sp[i].control_ptr_].shared_owners_
                        >= Cardinality(Owners(sp[i].control_ptr_))

\* C15, the counting half alone (the claim's "i.e."): the strong count of a
\* block is never smaller than the number of live owning handles bound to it.
C15_OwnersAreCounted ==
    \A b \in Blocks : cb[b].shared_owners_ >= Cardinality(Owners(b))

\* C16: the control block of a live non-empty observing handle has not been
\* deallocated: the final hook has not fired for it.
C16_ObservedBlockNotFreed ==
    \A k \in WSlots :
        (wp[k].live /\ wp[k].control_ptr_ # 0) =>
            /\ cb[wp[k].control_ptr_].state = "live"
            /\ cb[wp[k].control_ptr_].zero_shared_and_weak_calls = 0

\* C17: no operation on observing handles (construction from an owning
\* handle, copy, move, assignment, destruction) changes the strong count of
\* any block or fires the first cleanup hook; the destruction strategy is not
\* invoked. (expired() is the operator of that name: it changes no state.)
C17_ObservingOpsKeepStrong ==
    [][(sp' = sp /\ ObservingOps) =>
          \A b \in Blocks :
              /\ cb'[b].shared_owners_ = cb[b].shared_owners_
              /\ cb'[b].zero_shared_calls = cb[b].zero_shared_calls
              /\ cb'[b].deleter_calls = cb[b].deleter_calls
      ]_vars

\* The last observing handle of a block whose object was already destroyed
\* has just been destroyed: the block is freed and the destruction strategy
\* has run once.
C17_Witness ==
    /\ last.op = "~WeakPtr, expired"
    /\ last.blk # 0
    /\ last.pre = 0
    /\ cb[last.blk].state = "freed"
    /\ cb[last.blk].zero_shared_calls = 1
    /\ cb[last.blk].deleter_calls = 1
    /\ cb[last.blk].zero_shared_and_weak_calls = 1

\* Block b is deallocated by this step: its final cleanup hook fires.
FinalHookFires(b) ==
    cb'[b].zero_shared_and_weak_calls > cb[b].zero_shared_and_weak_calls

\* C18: a step in which the final cleanup hook of a block fires starts with
\* at most one reference to the block left, the one the step releases (strong
\* count + weak count <= 1), and ends with the first hook fired; when an
\* observing operation fires it, the first hook had fired before.  And the
\* destruction of the last owning handle of a live block that no observing
\* handle is bound to fires both hooks in that one step: the block is freed.
C18_HookOrdering ==
    [][/\ \A b \in Blocks :
            FinalHookFires(b) =>
                /\ cb[b].shared_owners_ + cb[b].shared_weak_owners_ <= 1
                /\ cb'[b].zero_shared_calls >= 1
                /\ cb'[b].state = "freed"
                /\ ObservingOps =>
                      /\ cb[b].shared_owners_ = 0
                      /\ cb[b].zero_shared_calls >= 1
       /\ \A i \in SSlots :
            LET b == sp[i].control_ptr_ IN
            (/\ b # 0
             /\ cb[b].state = "live"
             /\ Owners(b) = {i}
             /\ Observers(b) = {}
             /\ SharedPtrDtor(i)) =>
                /\ cb'[b].zero_shared_calls = cb[b].zero_shared_calls + 1
                /\ FinalHookFires(b)
                /\ cb'[b].state = "freed"
      ]_vars

\* A block made by AllocateShared has lost its last handle: both hooks have
\* fired, each once, and the block is deallocated.
C18_Witness ==
    \E b \in Blocks :
        /\ cb[b].kind = "emplacer"
        /\ cb[b].state = "freed"
        /\ cb[b].zero_shared_calls = 1
        /\ cb[b].zero_shared_and_weak_calls = 1
        /\ Owners(b) = {}
        /\ Observers(b) = {}

\* C19: the weak count of a live control block equals the number of live
\* observing handles bound to it, after every sequence of operations,
\* WeakPtr::lock and the owning handles' operations included.
C19_WeakCountIsObservers ==
    \A b \in Blocks :
        cb[b].state = "live" =>
            cb[b].shared_weak_owners_ = Cardinality(Observers(b))

\* No operation on owning handles, lock() included, changes the weak count of
\* a block that is live before and after it.
C19_OwningOpsKeepWeak ==
    [][(Construct \/ OwningOps \/ Lock) =>
          \A b \in Blocks :
              (cb[b].state = "live" /\ cb'[b].state = "live") =>
                  cb'[b].shared_weak_owners_ = cb[b].shared_weak_owners_
      ]_vars

\* Two observing handles share a live block and lock() has just been called
\* on one of them: the weak count is 2.
C19_Witness ==
    /\ last.op = "lock"
    /\ last.blk # 0
    /\ cb[last.blk].state = "live"
    /\ Cardinality(Observers(last.blk)) = 2
    /\ cb[last.blk].shared_weak_owners_ = 2

\* Slot i is constructed from the raw pointer ptr with a new block b by one
\* of the three raw-pointer constructors, and nothing throws.
FromRawSucceeds(i, b, ptr) ==
    \/ SharedPtrFromRaw(i, b, ptr, FALSE)
    \/ SharedPtrFromRawDeleter(i, b, ptr, FALSE)
    \/ SharedPtrFromRawDeleterAlloc(i, b, ptr, FALSE, FALSE)

\* C20: a raw-pointer constructor that returns has created a control block
\* with strong count 1, also for a null pointer: the handle then has
\* use_count() = 1 and get() = null and is not the empty handle; destroying
\* it, the only handle of its block, fires both cleanup hooks, the first one
\* invoking the destruction strategy on the null pointer the block holds.
C20_NullPointerStillOwned ==
    [][\A i \in SSlots, b \in Blocks :
          /\ \A ptr \in {0, b} :
                (wp' = wp /\ FromRawSucceeds(i, b, ptr)) =>
                    /\ sp'[i] = Handle(ptr, b)
                    /\ sp'[i] # EmptyHandle
                    /\ get(i)' = ptr
                    /\ use_count(i)' = 1
                    /\ cb'[b].state = "live"
                    /\ cb'[b].kind = "pointer"
                    /\ cb'[b].value_ = ptr
                    /\ cb'[b].shared_owners_ = 1
          /\ (/\ sp[i] = Handle(0, b)
              /\ cb[b].state = "live"
              /\ Owners(b) = {i}
              /\ Observers(b) = {}
              /\ SharedPtrDtor(i)) =>
                 /\ cb[b].value_ = 0
                 /\ cb'[b].zero_shared_calls = cb[b].zero_shared_calls + 1
                 /\ cb'[b].deleter_calls = cb[b].deleter_calls + 1
                 /\ cb'[b].zero_shared_and_weak_calls
                        = cb[b].zero_shared_and_weak_calls + 1
                 /\ cb'[b].state = "freed"
      ]_vars

\* A block made from a null raw pointer has lost its handle: the deleter ran
\* once, on the null pointer the block holds, and the block is deallocated.
C20_Witness ==
    \E b \in Blocks :
        /\ cb[b].kind = "pointer"
        /\ cb[b].value_ = 0
        /\ cb[b].state = "freed"
        /\ cb[b].deleter_calls = 1
        /\ cb[b].zero_shared_calls = 1
        /\ cb[b].zero_shared_and_weak_calls = 1
        /\ Owners(b) = {}

====
